---- MODULE Spec2Model ----
(***************************************************************************)
(* Model of the review orchestrator of the AI code reviewer                *)
(* (src/src/aiReviewService.ts): AIReviewService.reviewPullRequest with    *)
(* its batching, its retrying remote call, its response parser, its        *)
(* normalizers and its aggregation.                                        *)
(* Model of the webhook gateway (src/src/webhookServer.ts): handleRequest *)
(* with its body chunks and its signature check, and start and stop.      *)
(* Model of the runs of a review (src/src/extension.ts): runReview and     *)
(* ensureGitHubService with the GitHub client they share.                  *)
(*                                                                         *)
(* Text that the code searches (error messages) is a sequence of           *)
(* one-character strings, so that String.includes is a real search.        *)
(* A missing (undefined) field of a JSON value is NoVal.                   *)
(***************************************************************************)
EXTENDS Integers, Sequences, FiniteSets, TLC

\* ------------------------------------------------------------------------
\* Bounds of the model
\* ------------------------------------------------------------------------

\* Longest change-set handed to the batching specification.
MaxFiles == 3

\* Longest change-set handed to a whole review.
MaxReviewFiles == 2

\* Most elements in the array of one remote response.
MaxItems == 2

\* ------------------------------------------------------------------------
\* Program constants
\* ------------------------------------------------------------------------

\* reviewPullRequest: this.batchFiles(reviewableFiles, 25000)
maxChars == 25000

\* callGroqWithRetry(prompt, maxRetries = 3)
maxRetries == 3

\* callGroqWithRetry: waitSec = attempt * 10
waitSecPerAttempt == 10

\* callGroq: res.statusCode !== 200
okStatus == 200

\* callGroqWithRetry: err.message?.includes('429')
RateLimitStatus == 429

NoVal == "<undefined>"

\* ------------------------------------------------------------------------
\* Generic helpers
\* ------------------------------------------------------------------------

\* The concatenation of a sequence of sequences, in order.
RECURSIVE Flatten(_)
Flatten(ss) == IF ss = <<>> THEN <<>> ELSE Head(ss) \o Flatten(Tail(ss))

\* All sequences over S of length at most n.
SeqsUpTo(S, n) == UNION {[1..k -> S] : k \in 0..n}

\* How many positions of s hold v.
Count(v, s) == Cardinality({k \in 1..Len(s) : s[k] = v})

\* String.prototype.includes on character sequences.
Includes(s, sub) ==
    \E k \in 1..(Len(s) - Len(sub) + 1) : SubSeq(s, k, k + Len(sub) - 1) = sub

\* ------------------------------------------------------------------------
\* Change-sets (PRFile, src/src/types.ts)
\* ------------------------------------------------------------------------

FileNames == {"a.ts", "b.ts"}

FileStatuses == {"modified", "removed"}

\* Lengths of the patch text; a file whose patch is missing has hasPatch FALSE.
PatchLengths == {0, 8000, 10000, 15000, 26000}

PRFile(name, status, hasPatch, len) ==
    [filename |-> name, status |-> status, hasPatch |-> hasPatch, patchLength |-> len]

FileDomain ==
    {PRFile(n, s, TRUE, l) : n \in FileNames, s \in FileStatuses, l \in PatchLengths}
    \cup {PRFile(n, s, FALSE, 0) : n \in FileNames, s \in FileStatuses}

\* The files of a whole review: each reviewable file is large enough for two
\* of them not to share a batch.
ReviewFileDomain == {f \in FileDomain : f.patchLength \in {0, 15000}}

\* The files of a review whose reviewable files share one batch.
AggregateFileDomain == {f \in FileDomain : f.hasPatch /\ f.patchLength = 8000}

\* reviewPullRequest, the filter of reviewableFiles:
\*   f.status !== 'removed' && f.patch && f.patch.length > 0
IsReviewable(f) == f.status # "removed" /\ f.hasPatch /\ f.patchLength > 0

ReviewableFiles(fs) == SelectSeq(fs, IsReviewable)

\* batchFiles: file.patch?.length || 0
PatchSize(f) == IF f.hasPatch THEN f.patchLength ELSE 0

\* ClosesBatch with >= for >: a batch is closed when the next file would
\* fill it exactly.
ClosesBatchAtCeiling(currentSize, patchSize, max, current) ==
    currentSize + patchSize >= max /\ Len(current) > 0

\* batchFiles: the test that closes the current batch before `file`.
ClosesBatch(currentSize, patchSize, max, current) ==
    currentSize + patchSize > max /\ Len(current) > 0

\* BatchLoop without the push of the file that closed a batch.
RECURSIVE BatchLoopDropsFile(_, _, _, _, _, _)
BatchLoopDropsFile(fs, k, max, batches, current, currentSize) ==
    IF k > Len(fs)
    THEN IF Len(current) > 0 THEN Append(batches, current) ELSE batches
    ELSE LET file == fs[k]
             patchSize == PatchSize(file)
         IN IF currentSize + patchSize > max /\ Len(current) > 0
            THEN BatchLoopDropsFile(fs, k + 1, max, Append(batches, current), <<>>, 0)
            ELSE BatchLoopDropsFile(fs, k + 1, max, batches, Append(current, file),
                                    currentSize + patchSize)

\* batchFiles: the loop over the files from position k on.
RECURSIVE BatchLoop(_, _, _, _, _, _)
BatchLoop(fs, k, max, batches, current, currentSize) ==
    IF k > Len(fs)
    THEN IF Len(current) > 0 THEN Append(batches, current) ELSE batches
    ELSE LET file == fs[k]
             patchSize == PatchSize(file)
         IN IF ClosesBatch(currentSize, patchSize, max, current)
            THEN BatchLoop(fs, k + 1, max, Append(batches, current), <<file>>, patchSize)
            ELSE BatchLoop(fs, k + 1, max, batches, Append(current, file),
                           currentSize + patchSize)

\* batchFiles(files, maxChars)
BatchFiles(fs, max) ==
    LET batches == BatchLoop(fs, 1, max, <<>>, <<>>, 0)
    IN IF Len(batches) > 0 THEN batches ELSE << <<>> >>

\* The combined patch length of a batch.
RECURSIVE BatchSize(_)
BatchSize(b) == IF b = <<>> THEN 0 ELSE PatchSize(Head(b)) + BatchSize(Tail(b))

\* ------------------------------------------------------------------------
\* The remote call (callGroq)
\* ------------------------------------------------------------------------

DigitChars == <<"0", "1", "2", "3", "4", "5", "6", "7", "8", "9">>

\* The decimal digits of n, as `${res.statusCode}` writes them.
RECURSIVE Digits(_)
Digits(n) ==
    IF n < 10 THEN <<DigitChars[n + 1]>>
    ELSE Digits(n \div 10) \o <<DigitChars[(n % 10) + 1]>>

\* 'Groq API '
GroqApiText == <<"G", "r", "o", "q", " ", "A", "P", "I", " ">>

\* 'Groq API timeout (90s)'
TimeoutMessage ==
    GroqApiText \o <<"t", "i", "m", "e", "o", "u", "t", " ", "(", "9", "0", "s", ")">>

\* 'Empty response from Groq'
EmptyResponseMessage ==
    <<"E", "m", "p", "t", "y", " ", "r", "e", "s", "p", "o", "n", "s", "e", " ",
      "f", "r", "o", "m", " ", "G", "r", "o", "q">>

\* What the body of an error response says (errJson.error.message, or the
\* first 300 characters of the body): 'down', 'limit 429'.
ErrorDetails ==
    { <<"d", "o", "w", "n">>,
      <<"l", "i", "m", "i", "t", " ", "4", "2", "9">> }

\* The statuses of the error responses of the model.
ErrorStatuses == {RateLimitStatus, 500}

\* Values a field of an element of the response array can have besides a
\* string: NoVal (missing) and a truthy value that is not a string.
NonString == "<non-string>"

RawFiles == {"a.ts", NoVal}

RawSeverities == {"CRITICAL", "warn", "hint", "constructor", NoVal, NonString}


\* item.category: a name of the table in capitals, a synonym, a name that is
\* not in the table, the name of a property every object inherits, none, and
\* a value that is not a string.
RawCategories ==
    {"Security", "code-quality", "style", "constructor", NoVal, NonString}

\* item.line: a number; 0 stands for a missing line as well (both are falsy
\* in `item.line || idx` and both give line 0).
RawLines == {0}

\* The elements of a response array: every file and severity with a message,
\* and elements whose message is empty or missing.
RawItems ==
    [file : RawFiles, line : RawLines, severity : RawSeverities,
     category : {"Security"}, message : {"m"}]
    \cup [file : {"a.ts"}, line : RawLines, severity : {"CRITICAL"},
          category : {"Security"}, message : {"", NoVal}]
    \cup [file : {"a.ts"}, line : RawLines, severity : {"CRITICAL"},
          category : RawCategories \ {"Security"}, message : {"m"}]

\* The elements of the responses of a review of several batches.
ReviewItems ==
    [file : {"a.ts"}, line : RawLines, severity : {"CRITICAL", "warn"},
     category : {"Security"}, message : {"m"}]

\* The text a successful call returns: one that holds a JSON array ("array"),
\* one without any bracketed part ("prose"), one whose bracketed part is not
\* JSON ("broken"), and the empty text ("empty").
ResponseTexts(items) ==
    {[kind |-> "array", items |-> its] : its \in SeqsUpTo(items, MaxItems)}
    \cup {[kind |-> k, items |-> <<>>] : k \in {"prose", "broken", "empty"}}

NoResponse == [kind |-> "empty", items |-> <<>>]

\* What one remote call can end with: an HTTP response, or the 90 s timeout.
RemoteOutcomes(items) ==
    {[kind |-> "http", status |-> okStatus, detail |-> <<>>, response |-> r] :
        r \in ResponseTexts(items)}
    \cup {[kind |-> "http", status |-> st, detail |-> d, response |-> NoResponse] :
        st \in ErrorStatuses, d \in ErrorDetails}
    \cup {[kind |-> "timeout", status |-> 0, detail |-> <<>>, response |-> NoResponse]}

\* callGroq: the message of the error of a non-200 response.
HttpErrorMessage(status, detail) ==
    GroqApiText \o Digits(status) \o <<":", " ">> \o detail

\* callGroq: how the promise settles for a remote outcome: resolved with the
\* text, or rejected with an error message.
CallGroq(o) ==
    IF o.kind = "timeout"
    THEN [ok |-> FALSE, text |-> NoResponse, message |-> TimeoutMessage]
    ELSE IF o.status # okStatus
    THEN [ok |-> FALSE, text |-> NoResponse,
          message |-> HttpErrorMessage(o.status, o.detail)]
    ELSE IF o.response.kind = "empty"
    THEN [ok |-> FALSE, text |-> NoResponse, message |-> EmptyResponseMessage]
    ELSE [ok |-> TRUE, text |-> o.response, message |-> <<>>]

\* The test that also takes the error of the 90 s timeout for a retry.
Is429OrTimeout(message) ==
    Includes(message, Digits(RateLimitStatus)) \/ message = TimeoutMessage

\* callGroqWithRetry: is429 = err.message?.includes('429')
Is429(message) == Includes(message, Digits(RateLimitStatus))

\* callGroqWithRetry: is429 && attempt < maxRetries
RetriesAfter(message, attempt) == Is429(message) /\ attempt < maxRetries

\* WaitSec without the factor `attempt`: the same wait before every retry.
WaitSecConstant(attempt) == waitSecPerAttempt

\* callGroqWithRetry: waitSec = attempt * 10
WaitSec(attempt) == attempt * waitSecPerAttempt

\* ------------------------------------------------------------------------
\* The response parser and the normalizers
\* ------------------------------------------------------------------------

\* String.prototype.toLowerCase on the strings of the model.
ToLowerCase(s) ==
    CASE s = "CRITICAL" -> "critical"
      [] s = "Security" -> "security"
      [] OTHER -> s

\* normalizeSeverity: the own properties of `map`.
SeverityMap ==
    "error" :> "error" @@ "critical" :> "error" @@ "high" :> "error"
    @@ "warning" :> "warning" @@ "warn" :> "warning" @@ "medium" :> "warning"
    @@ "info" :> "info" @@ "low" :> "info" @@ "information" :> "info"
    @@ "suggestion" :> "suggestion" @@ "hint" :> "suggestion"
    @@ "enhancement" :> "suggestion"

\* normalizeSeverity: `map` is an object literal, so map[key] also finds the
\* properties it inherits from Object.prototype; each is a truthy value.
InheritedProperties ==
    "constructor" :> "[Function: Object]" @@ "__proto__" :> "[Object: null prototype]"

\* normalizeSeverity(s) for a string or missing s: map[(s || '').toLowerCase()] || 'info'
NormalizeSeverity(s) ==
    LET key == ToLowerCase(IF s = NoVal THEN "" ELSE s)
    IN IF key \in DOMAIN SeverityMap THEN SeverityMap[key]
       ELSE IF key \in DOMAIN InheritedProperties THEN InheritedProperties[key]
       ELSE "info"

\* normalizeCategory: the own properties of `map`.
CategoryMap ==
    "security" :> "security" @@ "performance" :> "performance"
    @@ "error-handling" :> "error-handling"
    @@ "error handling" :> "error-handling"
    @@ "best-practice" :> "best-practice"
    @@ "best-practices" :> "best-practice"
    @@ "best practice" :> "best-practice" @@ "complexity" :> "complexity"
    @@ "naming" :> "naming" @@ "debug-statement" :> "debug-statement"
    @@ "debug" :> "debug-statement"
    @@ "debug-statements" :> "debug-statement"
    @@ "todo-comment" :> "todo-comment" @@ "todo" :> "todo-comment"
    @@ "large-file" :> "large-file" @@ "merge-conflict" :> "merge-conflict"
    @@ "duplicate-code" :> "duplicate-code"
    @@ "code-quality" :> "best-practice"

\* normalizeCategory(c) for a string or missing c:
\* map[(c || '').toLowerCase()] || 'best-practice'
NormalizeCategory(c) ==
    LET key == ToLowerCase(IF c = NoVal THEN "" ELSE c)
    IN IF key \in DOMAIN CategoryMap THEN CategoryMap[key]
       ELSE IF key \in DOMAIN InheritedProperties THEN InheritedProperties[key]
       ELSE "best-practice"

\* parseAIResponse: .filter(item => item && item.message)
HasMessage(item) == item.message # NoVal /\ item.message # ""

\* parseAIResponse: the id of the issue made from `item` at position idx
\* (from 0) of the filtered array: `ai-${file}-${line || idx}-${idx}`.
IssueId(item, idx) ==
    <<"ai", IF item.file = NoVal THEN "unknown" ELSE item.file,
      IF item.line # 0 THEN item.line ELSE idx, idx>>

\* parseAIResponse: the issue the .map callback makes.
MakeIssue(item, idx) ==
    [id |-> IssueId(item, idx),
     file |-> IF item.file = NoVal THEN "unknown" ELSE item.file,
     line |-> item.line,
     severity |-> NormalizeSeverity(item.severity),
     category |-> NormalizeCategory(item.category),
     message |-> <<item.message>>]

\* parseAIResponse(response): [] when no array is found or JSON.parse throws;
\* [] as well when a normalizer throws on a kept element (toLowerCase of a
\* value that is not a string), by the catch around the whole body.
ParseAIResponse(response) ==
    IF response.kind # "array" THEN <<>>
    ELSE LET kept == SelectSeq(response.items, HasMessage)
         IN IF \E k \in 1..Len(kept) :
                  kept[k].severity = NonString \/ kept[k].category = NonString
            THEN <<>>
            ELSE [k \in 1..Len(kept) |-> MakeIssue(kept[k], k - 1)]

\* ------------------------------------------------------------------------
\* Aggregation
\* ------------------------------------------------------------------------

HasSeverity(sev, issue) == issue.severity = sev

CountSeverity(issues, sev) ==
    Cardinality({k \in 1..Len(issues) : HasSeverity(sev, issues[k])})

\* buildSummary(issues, totalFiles)
BuildSummary(issues, totalFiles) ==
    [totalFiles |-> totalFiles,
     totalIssues |-> Len(issues),
     errors |-> CountSeverity(issues, "error"),
     warnings |-> CountSeverity(issues, "warning"),
     info |-> CountSeverity(issues, "info"),
     suggestions |-> CountSeverity(issues, "suggestion")]

\* ReviewStatus with the two tests in the other order.
ReviewStatusWarningsFirst(summary) ==
    IF summary.warnings > 0 THEN "warn"
    ELSE IF summary.errors > 0 THEN "fail"
    ELSE "pass"

\* reviewPullRequest: the status computed from the summary.
ReviewStatus(summary) ==
    IF summary.errors > 0 THEN "fail"
    ELSE IF summary.warnings > 0 THEN "warn"
    ELSE "pass"

\* 'ai-api-error'
ApiErrorId == <<"ai-api-error">>

\* The test without apiErrorOccurred: a review that collected no issue gets
\* the 'ai-api-error' issue, whether a call failed or not.
AddsApiErrorIssueWithoutFailure(errorOccurred, issues, reviewable) ==
    Len(issues) = 0 /\ Len(reviewable) > 0

\* reviewPullRequest: the test for adding the 'ai-api-error' issue.
AddsApiErrorIssue(errorOccurred, issues, reviewable) ==
    errorOccurred /\ Len(issues) = 0 /\ Len(reviewable) > 0

\* ApiErrorIssue attached to the last reviewable file instead of the first.
ApiErrorIssueOnLastFile(reviewable, lastError) ==
    [id |-> ApiErrorId,
     file |-> reviewable[Len(reviewable)].filename,
     line |-> 0,
     severity |-> "error",
     category |-> "best-practice",
     message |-> <<"AI review failed: ">> \o lastError]

\* reviewPullRequest: the issue pushed when the test holds.
ApiErrorIssue(reviewable, lastError) ==
    [id |-> ApiErrorId,
     file |-> reviewable[1].filename,
     line |-> 0,
     severity |-> "error",
     category |-> "best-practice",
     message |-> <<"AI review failed: ">> \o lastError]

\* reviewPullRequest: allIssues.filter(i => i.file === file.filename)
FileIssues(issues, file) ==
    LET OfFile(i) == i.file = file.filename IN SelectSeq(issues, OfFile)

\* The fileResults without the files whose status is 'removed'.
BuildFileResultsSkipsRemoved(fs, issues) ==
    LET Listed(f) == f.status # "removed"
        kept == SelectSeq(fs, Listed)
    IN [k \in 1..Len(kept) |->
           [filename |-> kept[k].filename, status |-> kept[k].status,
            issues |-> FileIssues(issues, kept[k])]]

\* reviewPullRequest: the fileResults, one per element of `files`.
BuildFileResults(fs, issues) ==
    [k \in 1..Len(fs) |->
        [filename |-> fs[k].filename, status |-> fs[k].status,
         issues |-> FileIssues(issues, fs[k])]]

\* reviewPullRequest: the ReviewResult returned for the issues collected.
BuildResult(fs, issues) ==
    LET summary == BuildSummary(issues, Len(fs))
    IN [summary |-> summary,
        issues |-> issues,
        files |-> BuildFileResults(fs, issues),
        status |-> ReviewStatus(summary)]

\* The value of `result` while reviewPullRequest has not returned.
NoResult ==
    [summary |-> BuildSummary(<<>>, 0), issues |-> <<>>, files |-> <<>>,
     status |-> "none"]

\* ------------------------------------------------------------------------
\* One call of reviewPullRequest
\* ------------------------------------------------------------------------

VARIABLES
    files,             \* the argument `files`
    filesNull,         \* the argument 'files' is null (files is then <<>>)
    pc,                \* where the call is: "start", "loop" (head of the for
                       \* loop), "awaitGroq", "sleep", "done"
    reviewableFiles,   \* const reviewableFiles
    batches,           \* const batches
    bIdx,              \* the loop variable, from 0
    attempt,           \* callGroqWithRetry: the loop variable, from 1
    allIssues,         \* const allIssues
    apiErrorOccurred,  \* let apiErrorOccurred
    lastApiError,      \* let lastApiError
    result,            \* the ReviewResult returned
    calls,             \* history: remote calls made for the current batch
    waits,             \* history: the waits (s) made for the current batch
    lastStatus,        \* history: HTTP status of the last response of the
                       \* current batch (0: none yet, or no response at all)
    batchFailed,       \* history: the current batch ended in the catch block
    issuesBefore,      \* history: allIssues.length when the batch started
    lastResponse,      \* history: the text the call of this batch resolved
                       \* with (NoResponse until it does)
    succeededBatches,  \* history: batches whose remote call succeeded
    inFlight           \* history: remote calls made that have not ended

reviewVars ==
    <<files, filesNull, pc, reviewableFiles, batches, bIdx, attempt,
      allIssues, apiErrorOccurred, lastApiError, result, calls, waits,
      lastStatus, batchFailed, issuesBefore, lastResponse, succeededBatches,
      inFlight>>

\* The webhook gateway (src/src/webhookServer.ts): a WebhookServer and the
\* requests that its http.Server hands to handleRequest.
VARIABLES
    secret,          \* this.secret
    server,          \* this.server: "null" or "Server"
    listener,        \* the socket of the http.Server: "unbound", "binding"
                     \* (listen called, outcome not delivered), "listening"
    startPromise,    \* the promise of the start() that made this.server:
                     \* "none", "pending", "resolved", "rejected"
    startError,      \* err.code of the last 'error' event, or NoVal
    closing,         \* close callbacks of stop() that have not run yet
    statusChanges,   \* history: the values fired on _onStatusChange
    refusedStarts,   \* history: calls of start() that threw
    disposed,        \* dispose() has been called: the emitters are disposed
    lifecycleCalls,  \* history: calls of start() and stop() made
    req,             \* per request: method, url, headers, raw body, and how
                     \* the body is cut into chunks
    hpc,             \* per request: "none", "received" (handleRequest not
                     \* run yet), "reading" (listeners set), "ended"
    chunks,          \* per request: the chunks not delivered yet
    body,            \* per request: let body
    writeHeads,      \* per request, history: the calls of res.writeHead
    fired,           \* per request, history: the payloads fired on
                     \* _onPullRequestEvent
    uncaught         \* per request: the error that left the handler

lifecycleVars ==
    <<server, listener, startPromise, startError, closing, statusChanges,
      refusedStarts, disposed, lifecycleCalls>>

requestVars == <<req, hpc, chunks, body, writeHeads, fired, uncaught>>

gatewayVars == <<secret, lifecycleVars, requestVars>>

\* The extension (src/src/extension.ts): the GitHub client of the module and
\* the calls of runReview in progress. A client is named by the repository
\* (owner/repo) it was created for.
VARIABLES
    githubService,   \* let githubService: "null" or the client
    currentRepo,     \* currentOwner/currentRepo: "" or a repository
    rpc,             \* rpc[i]: where call i of runReview is
    runRepo,         \* runRepo[i]: the owner and repo call i was made with
    github,          \* github[i]: const github of call i (NoVal: not yet set)
    used             \* used[i]: the calls made on github[i], with the
                     \* repository each went to

extensionVars == <<githubService, currentRepo, rpc, runRepo, github, used>>

vars == <<reviewVars, gatewayVars, extensionVars>>

RunIds == {1, 2}

Repositories == {"o/a", "o/b"}

\* runReview has not been called.
NoRuns ==
    /\ githubService = "null"
    /\ currentRepo = ""
    /\ rpc = [i \in RunIds |-> "none"]
    /\ runRepo = [i \in RunIds |-> ""]
    /\ github = [i \in RunIds |-> NoVal]
    /\ used = [i \in RunIds |-> <<>>]

RequestIds == {1, 2}

NoRequest == [method |-> NoVal]

EmptyString == [docs |-> <<>>, text |-> <<>>]

\* No WebhookServer has been started and no request is in flight.
NoServer ==
    /\ server = "null"
    /\ listener = "unbound"
    /\ startPromise = "none"
    /\ startError = NoVal
    /\ closing = 0
    /\ statusChanges = <<>>
    /\ refusedStarts = 0
    /\ disposed = FALSE
    /\ lifecycleCalls = 0

\* The requests in rs, a function from RequestIds to requests or NoRequest,
\* have reached the http.Server.
Received(rs) ==
    /\ req = rs
    /\ hpc = [i \in RequestIds |->
                IF rs[i] = NoRequest THEN "none" ELSE "received"]
    /\ chunks = [i \in RequestIds |-> <<>>]
    /\ body = [i \in RequestIds |-> EmptyString]
    /\ writeHeads = [i \in RequestIds |-> <<>>]
    /\ fired = [i \in RequestIds |-> <<>>]
    /\ uncaught = [i \in RequestIds |-> "none"]

NoGateway ==
    /\ secret = ""
    /\ NoServer
    /\ Received([i \in RequestIds |-> NoRequest])

callVars ==
    <<attempt, calls, waits, lastStatus, batchFailed, issuesBefore,
      lastResponse, inFlight>>

\* The variables of a review before reviewPullRequest runs.
ReviewFresh ==
    /\ reviewableFiles = <<>>
    /\ batches = <<>>
    /\ bIdx = 0
    /\ attempt = 0
    /\ allIssues = <<>>
    /\ apiErrorOccurred = FALSE
    /\ lastApiError = <<>>
    /\ result = NoResult
    /\ calls = 0
    /\ waits = <<>>
    /\ lastStatus = 0
    /\ batchFailed = FALSE
    /\ issuesBefore = 0
    /\ lastResponse = NoResponse
    /\ succeededBatches = 0
    /\ inFlight = 0

\* reviewPullRequest has been called and has not run yet.
ReviewCalled ==
    /\ pc = "start"
    /\ ReviewFresh
    /\ NoGateway
    /\ NoRuns

\* reviewPullRequest has not been called.
ReviewIdle ==
    /\ files = <<>>
    /\ filesNull = FALSE
    /\ pc = "idle"
    /\ ReviewFresh

\* No review has been asked for.
NoReview ==
    /\ ReviewIdle
    /\ NoRuns

InitWith(changeSets) ==
    /\ files \in changeSets
    /\ filesNull = FALSE
    /\ ReviewCalled

\* reviewPullRequest(null, ...): the signature says PRFile[], and nothing at
\* run time keeps a caller from passing null.
InitNull ==
    /\ files = <<>>
    /\ filesNull = TRUE
    /\ ReviewCalled

\* A review of a change-set of at most MaxReviewFiles files, or of null.
Init ==
    \/ InitWith(SeqsUpTo(ReviewFileDomain, MaxReviewFiles))
    \/ InitNull

\* A review of a change-set whose reviewable files share one batch.
InitAggregate == InitWith(SeqsUpTo(AggregateFileDomain, MaxReviewFiles))

\* The batching of a change-set of at most MaxFiles files of any size.
InitBatch == InitWith(SeqsUpTo(FileDomain, MaxFiles))

\* files.filter(...) on null: a TypeError.
FilterThrowsNever(isNull) == FALSE

FilterThrows(isNull) == isNull

\* reviewPullRequest up to the for loop: filter the files, batch them.
ReviewPullRequest ==
    /\ pc = "start"
    /\ ~FilterThrows(filesNull)
    /\ reviewableFiles' = ReviewableFiles(files)
    /\ batches' = BatchFiles(ReviewableFiles(files), maxChars)
    /\ bIdx' = 0
    /\ pc' = "loop"
    /\ UNCHANGED <<gatewayVars, extensionVars>>
    /\ UNCHANGED <<files, filesNull, allIssues, apiErrorOccurred,
                   lastApiError, result,
                   succeededBatches>>
    /\ UNCHANGED callVars

\* Without the await a turn of the loop begins while the call of the turn
\* before is in flight.
BeginBatchOverlapping ==
    /\ pc \in {"loop", "awaitGroq"}
    /\ bIdx < Len(batches)
    /\ attempt' = 1
    /\ calls' = 1
    /\ waits' = <<>>
    /\ lastStatus' = 0
    /\ batchFailed' = FALSE
    /\ issuesBefore' = Len(allIssues)
    /\ lastResponse' = NoResponse
    /\ inFlight' = inFlight + 1
    /\ pc' = "awaitGroq"
    /\ UNCHANGED <<gatewayVars, extensionVars>>
    /\ UNCHANGED <<files, filesNull, reviewableFiles, batches, bIdx, allIssues,
                   apiErrorOccurred, lastApiError, result, succeededBatches>>

\* One turn of the for loop begins: callGroqWithRetry makes its first call.
BeginBatch ==
    /\ pc = "loop"
    /\ bIdx < Len(batches)
    /\ attempt' = 1
    /\ calls' = 1
    /\ waits' = <<>>
    /\ lastStatus' = 0
    /\ batchFailed' = FALSE
    /\ issuesBefore' = Len(allIssues)
    /\ lastResponse' = NoResponse
    /\ inFlight' = inFlight + 1
    /\ pc' = "awaitGroq"
    /\ UNCHANGED <<gatewayVars, extensionVars>>
    /\ UNCHANGED <<files, filesNull, reviewableFiles, batches, bIdx, allIssues,
                   apiErrorOccurred, lastApiError, result, succeededBatches>>

\* The TypeError of files.filter leaves the async function: the promise that
\* reviewPullRequest returned is rejected.
ReviewPullRequestThrows ==
    /\ pc = "start"
    /\ FilterThrows(filesNull)
    /\ pc' = "thrown"
    /\ UNCHANGED <<gatewayVars, extensionVars>>
    /\ UNCHANGED <<files, filesNull, reviewableFiles, batches, bIdx, allIssues,
                   apiErrorOccurred, lastApiError, result, succeededBatches>>
    /\ UNCHANGED callVars

StatusOf(o) == IF o.kind = "http" THEN o.status ELSE 0

\* The call resolves: the response is parsed and its issues are pushed.
GroqResolves(o) ==
    /\ pc = "awaitGroq"
    /\ CallGroq(o).ok
    /\ allIssues' = allIssues \o ParseAIResponse(CallGroq(o).text)
    /\ succeededBatches' = succeededBatches + 1
    /\ lastResponse' = CallGroq(o).text
    /\ lastStatus' = StatusOf(o)
    /\ bIdx' = bIdx + 1
    /\ inFlight' = inFlight - 1
    /\ pc' = "loop"
    /\ UNCHANGED <<gatewayVars, extensionVars>>
    /\ UNCHANGED <<files, filesNull, reviewableFiles, batches, apiErrorOccurred,
                   lastApiError, result, attempt, calls, waits, batchFailed,
                   issuesBefore>>

\* The call rejects and callGroqWithRetry starts a wait before the next one.
GroqRetries(o) ==
    /\ pc = "awaitGroq"
    /\ ~CallGroq(o).ok
    /\ RetriesAfter(CallGroq(o).message, attempt)
    /\ waits' = Append(waits, WaitSec(attempt))
    /\ lastStatus' = StatusOf(o)
    /\ inFlight' = inFlight - 1
    /\ pc' = "sleep"
    /\ UNCHANGED <<gatewayVars, extensionVars>>
    /\ UNCHANGED <<files, filesNull, reviewableFiles, batches, bIdx, allIssues,
                   apiErrorOccurred, lastApiError, result, attempt, calls,
                   batchFailed, issuesBefore, lastResponse,
                   succeededBatches>>

\* The catch block ends inside the loop body: the loop goes on with bIdx++.
AfterCatchBreaks(i, n) == n

AfterCatch(i, n) == i + 1

\* Without the try block the error of callGroqWithRetry leaves
\* reviewPullRequest.
GroqFailsUncaught(o) ==
    /\ pc = "awaitGroq"
    /\ ~CallGroq(o).ok
    /\ ~RetriesAfter(CallGroq(o).message, attempt)
    /\ lastStatus' = StatusOf(o)
    /\ inFlight' = inFlight - 1
    /\ pc' = "thrown"
    /\ UNCHANGED <<gatewayVars, extensionVars>>
    /\ UNCHANGED <<files, filesNull, reviewableFiles, batches, bIdx,
                   allIssues, apiErrorOccurred, lastApiError, result, attempt,
                   calls, waits, batchFailed, issuesBefore, lastResponse,
                   succeededBatches>>

\* The call rejects and callGroqWithRetry throws: the catch block of the loop.
GroqFails(o) ==
    /\ pc = "awaitGroq"
    /\ ~CallGroq(o).ok
    /\ ~RetriesAfter(CallGroq(o).message, attempt)
    /\ apiErrorOccurred' = TRUE
    /\ lastApiError' = CallGroq(o).message
    /\ batchFailed' = TRUE
    /\ lastStatus' = StatusOf(o)
    /\ bIdx' = AfterCatch(bIdx, Len(batches))
    /\ inFlight' = inFlight - 1
    /\ pc' = "loop"
    /\ UNCHANGED <<gatewayVars, extensionVars>>
    /\ UNCHANGED <<files, filesNull, reviewableFiles, batches, allIssues,
                   result, attempt, calls, waits, issuesBefore, lastResponse,
                   succeededBatches>>

\* The wait ends: the next attempt makes its call.
SleepEnds ==
    /\ pc = "sleep"
    /\ attempt' = attempt + 1
    /\ calls' = calls + 1
    /\ inFlight' = inFlight + 1
    /\ pc' = "awaitGroq"
    /\ UNCHANGED <<gatewayVars, extensionVars>>
    /\ UNCHANGED <<files, filesNull, reviewableFiles, batches, bIdx, allIssues,
                   apiErrorOccurred, lastApiError, result, waits, lastStatus,
                   batchFailed, issuesBefore, lastResponse,
                   succeededBatches>>

\* After the loop: the 'ai-api-error' issue, the file results, the summary,
\* the status; the ReviewResult is returned.
Finish ==
    /\ pc = "loop"
    /\ bIdx >= Len(batches)
    /\ allIssues' =
         IF AddsApiErrorIssue(apiErrorOccurred, allIssues, reviewableFiles)
         THEN Append(allIssues, ApiErrorIssue(reviewableFiles, lastApiError))
         ELSE allIssues
    /\ result' = BuildResult(files, allIssues')
    /\ pc' = "done"
    /\ UNCHANGED <<gatewayVars, extensionVars>>
    /\ UNCHANGED <<files, filesNull, reviewableFiles, batches, bIdx,
                   apiErrorOccurred,
                   lastApiError, succeededBatches>>
    /\ UNCHANGED callVars

NextWith(outcomes) ==
    \/ ReviewPullRequest
    \/ BeginBatch
    \/ pc = "awaitGroq" /\ \E o \in outcomes : GroqResolves(o)
    \/ pc = "awaitGroq" /\ \E o \in outcomes : GroqRetries(o)
    \/ pc = "awaitGroq" /\ \E o \in outcomes : GroqFails(o)
    \/ SleepEnds
    \/ Finish

\* A whole review, of one batch per reviewable file.
ReviewOutcomes == RemoteOutcomes(ReviewItems)

Next == NextWith(ReviewOutcomes) \/ ReviewPullRequestThrows

Spec == Init /\ [][Next]_vars

\* A review of one batch, with every element the response array can hold.
AggregateOutcomes == RemoteOutcomes(RawItems)

\* A call of the remote service ends, by a response, an error or the 90 s
\* timeout, and a timer of callGroqWithRetry fires: no step of a review that
\* can be taken is put off for ever.
LiveItems ==
    [file : {"a.ts"}, line : RawLines, severity : {"CRITICAL"},
     category : {"Security"}, message : {"m"}]

\* Whether a review ends does not depend on what the issues say: one kind of
\* element, and every way a call can end.
LiveOutcomes == RemoteOutcomes(LiveItems)

NextLive == NextWith(LiveOutcomes) \/ ReviewPullRequestThrows

SpecLive == Init /\ [][NextLive]_vars /\ WF_vars(NextLive)

NextAggregate == NextWith(AggregateOutcomes)

SpecAggregate == InitAggregate /\ [][NextAggregate]_vars

NextBatch == ReviewPullRequest

SpecBatch == InitBatch /\ [][NextBatch]_vars

\* ------------------------------------------------------------------------
\* The webhook gateway: requests (src/src/webhookServer.ts, handleRequest)
\* ------------------------------------------------------------------------

\* Bytes of the body of a request, longest body text of the signature runs.
MaxBodyBytes == 2

Methods == {"POST", "GET"}

Urls == {"/health", "/webhook", "/", "/other"}

\* The x-github-event header; NoVal: the request has none.
EventTypes == {"pull_request", "push", NoVal}

\* The secret of the constructor; '' is "no secret configured".
Secrets == {"", "k1"}

OtherSecret == "k2"

\* payload.action: the four actions of the code, two others, and none.
PayloadActions ==
    {"opened", "synchronize", "reopened", "ready_for_review", "synchronized",
     "closed", NoVal}

\* What JSON.parse makes of the JSON text of a body: an object with or
\* without action, number and pull_request; null; a primitive; a SyntaxError.
ObjectDocuments ==
    [json : {"object"}, action : PayloadActions, number : {"7", NoVal},
     hasPullRequest : BOOLEAN]

OtherDocuments ==
    {[json |-> j, action |-> NoVal, number |-> NoVal,
      hasPullRequest |-> FALSE] : j \in {"null", "primitive", "invalid"}}

Documents == ObjectDocuments \cup OtherDocuments

\* A body on the wire is the ASCII bytes of a JSON text (a document, taken
\* as a block) and the bytes of the text of a string in it. A byte of that
\* text is an ASCII byte ("a"), the lead byte of a two-byte UTF-8 sequence
\* ("L") or a continuation byte ("C").
Bytes == {"a", "L", "C"}

RawBody(doc, bytes) == [docs |-> <<doc>>, bytes |-> bytes]

\* Buffer.toString(): UTF-8 decoding of one chunk; a byte that is not part of
\* a complete sequence inside the chunk becomes U+FFFD.
RECURSIVE Utf8Decode(_)
Utf8Decode(bs) ==
    IF bs = <<>> THEN <<>>
    ELSE IF bs[1] = "a" THEN <<"a">> \o Utf8Decode(Tail(bs))
    ELSE IF bs[1] = "L" /\ Len(bs) >= 2 /\ bs[2] = "C"
         THEN <<"U+00E9">> \o Utf8Decode(SubSeq(bs, 3, Len(bs)))
    ELSE <<"U+FFFD">> \o Utf8Decode(Tail(bs))

\* The UTF-8 bytes of a string, as hmac.update(string) takes them.
RECURSIVE Utf8Encode(_)
Utf8Encode(cs) ==
    IF cs = <<>> THEN <<>>
    ELSE (CASE cs[1] = "a" -> <<"a">>
            [] cs[1] = "U+00E9" -> <<"L", "C">>
            [] OTHER -> <<"EF", "BF", "BD">>) \o Utf8Encode(Tail(cs))

\* chunk.toString()
ChunkToString(chunk) == [docs |-> chunk.docs, text |-> Utf8Decode(chunk.bytes)]

\* body += string
Concat(a, b) == [docs |-> a.docs \o b.docs, text |-> a.text \o b.text]

StringBytes(str) == [docs |-> str.docs, bytes |-> Utf8Encode(str.text)]

\* The 'data' events of a body cut after `split` bytes of its text; the
\* stream emits no empty chunk.
ChunksOf(raw, split) ==
    IF split >= Len(raw.bytes) THEN <<raw>>
    ELSE << [docs |-> raw.docs, bytes |-> SubSeq(raw.bytes, 1, split)],
            [docs |-> <<>>,
             bytes |-> SubSeq(raw.bytes, split + 1, Len(raw.bytes))] >>

\* A header value: its length in bytes and what it says.
NoHeader == [present |-> FALSE, length |-> 0, text |-> <<>>]

EmptyHeader == [present |-> TRUE, length |-> 0, text |-> <<>>]

Sha256Prefix == <<"s", "h", "a", "2", "5", "6", "=">>

\* The header 'sha256=' and nothing after it.
PrefixOnlyHeader ==
    [present |-> TRUE, length |-> Len(Sha256Prefix), text |-> <<"sha256=">>]

\* The hexadecimal digits of a SHA-256 digest.
HexDigestLength == 64

\* 'sha256=' + hmac.update(payload).digest('hex'): HMAC-SHA256 as a function
\* that gives different digests for different keys or bytes.
Digest(key, bytes) ==
    [present |-> TRUE, length |-> Len(Sha256Prefix) + HexDigestLength,
     text |-> <<"sha256=", key, bytes>>]

\* crypto.timingSafeEqual(Buffer.from(a), Buffer.from(b)): a RangeError when
\* the byte lengths differ.
TimingSafeEqual(a, b) ==
    IF a.length # b.length THEN "RangeError"
    ELSE IF a.text = b.text THEN "true" ELSE "false"

\* verifySignature(payload, signature): "true", "false" or the error thrown.
VerifySignature(key, payload, signature) ==
    IF ~signature.present \/ signature.length = 0 THEN "false"
    ELSE TimingSafeEqual(signature, Digest(key, StringBytes(payload)))

\* The x-hub-signature-256 headers tried on a request of body raw to a
\* gateway of secret key: none, '', the digest (with the sender's key when the
\* gateway has none), a digest under another key, 'sha256=' alone.
SignatureHeaders(key, raw) ==
    {NoHeader, EmptyHeader, PrefixOnlyHeader,
     Digest(IF key = "" THEN OtherSecret ELSE key, raw),
     Digest("k3", raw)}

Request(method, url, signature, event, raw, split) ==
    [method |-> method, url |-> url, signature |-> signature,
     event |-> event, raw |-> raw, split |-> split]

\* One call of res.writeHead: sent is FALSE when the call threw
\* ERR_HTTP_HEADERS_SENT because the response was already written.
Response(status, content) ==
    [status |-> status, body |-> content, sent |-> TRUE]

RefusedWriteHead(status) ==
    [status |-> status, body |-> NoVal, sent |-> FALSE]

MethodNotAllowed == Response(405, [error |-> "Method not allowed"])

Health == Response(200, [status |-> "ok"])

NotFound == Response(404, [error |-> "Not found"])

InvalidSignature == Response(401, [error |-> "Invalid signature"])

EventIgnored(event) ==
    Response(200, [message |-> "Event ignored", event |-> event])

ActionIgnored(action) ==
    Response(200, [message |-> "PR action ignored", action |-> action])

ReviewTriggered(payload) ==
    Response(200, [message |-> "Review triggered", pr |-> payload.number,
                   action |-> payload.action])

InvalidJson == Response(400, [error |-> "Invalid JSON payload"])

RelevantActionsWithClosed ==
    {"opened", "synchronize", "reopened", "ready_for_review", "closed"}

RelevantActions == {"opened", "synchronize", "reopened", "ready_for_review"}

\* What a handler leaves: its calls of res.writeHead, the payloads it fired,
\* the error that left it.
Handled(ws, fs, err) == [writeHeads |-> ws, fired |-> fs, uncaught |-> err]

\* The catch block: res.writeHead(400) throws when the response has been
\* written, and nothing catches that.
CatchBlock(ws, fs) ==
    IF ws = <<>>
    THEN Handled(<<InvalidJson>>, fs, "none")
    ELSE Handled(Append(ws, RefusedWriteHead(400)), fs,
                 "ERR_HTTP_HEADERS_SENT")

\* The try block, with payload what JSON.parse(body) read.
TryBlock(payload) ==
    IF payload.json = "invalid" THEN CatchBlock(<<>>, <<>>)
    ELSE IF payload.json = "null" THEN CatchBlock(<<>>, <<>>)
    ELSE IF payload.action \notin RelevantActions
         THEN Handled(<<ActionIgnored(payload.action)>>, <<>>, "none")
    ELSE IF ~payload.hasPullRequest
         THEN CatchBlock(<<ReviewTriggered(payload)>>, <<payload>>)
    ELSE Handled(<<ReviewTriggered(payload)>>, <<payload>>, "none")

\* The listener of 'end', for a gateway of secret key, a request r and the
\* body string str.
OnEnd(key, r, str) ==
    LET verified ==
            IF key = "" THEN "true"
            ELSE VerifySignature(key, str, r.signature)
    IN  IF verified = "RangeError" THEN Handled(<<>>, <<>>, "RangeError")
        ELSE IF verified = "false"
             THEN Handled(<<InvalidSignature>>, <<>>, "none")
        ELSE IF r.event # "pull_request"
             THEN Handled(<<EventIgnored(r.event)>>, <<>>, "none")
        ELSE TryBlock(str.docs[1])

\* handleRequest answers by itself.
AnswerAtOnce(i, response) ==
    /\ writeHeads' = [writeHeads EXCEPT ![i] = <<response>>]
    /\ hpc' = [hpc EXCEPT ![i] = "ended"]
    /\ UNCHANGED <<req, chunks, body, fired, uncaught>>
    /\ UNCHANGED <<secret, lifecycleVars>>
    /\ UNCHANGED <<reviewVars, extensionVars>>

Accepting(i) == hpc[i] = "received" /\ listener = "listening"

RejectMethod(i) ==
    /\ Accepting(i)
    /\ req[i].method # "POST"
    /\ AnswerAtOnce(i, MethodNotAllowed)

AnswerHealth(i) ==
    /\ Accepting(i)
    /\ req[i].method = "POST"
    /\ req[i].url = "/health"
    /\ AnswerAtOnce(i, Health)

RejectPath(i) ==
    /\ Accepting(i)
    /\ req[i].method = "POST"
    /\ req[i].url \notin {"/health", "/webhook", "/"}
    /\ AnswerAtOnce(i, NotFound)

\* handleRequest sets the listeners of 'data' and 'end' and returns.
ReadBody(i) ==
    /\ Accepting(i)
    /\ req[i].method = "POST"
    /\ req[i].url \in {"/webhook", "/"}
    /\ body' = [body EXCEPT ![i] = EmptyString]
    /\ chunks' = [chunks EXCEPT ![i] = ChunksOf(req[i].raw, req[i].split)]
    /\ hpc' = [hpc EXCEPT ![i] = "reading"]
    /\ UNCHANGED <<req, writeHeads, fired, uncaught>>
    /\ UNCHANGED <<secret, lifecycleVars>>
    /\ UNCHANGED <<reviewVars, extensionVars>>

\* One accumulator for all requests (a field of the server instead of the
\* local variable of handleRequest): a chunk is appended to every body.
AppendChunkShared(bodies, i, str) ==
    [j \in RequestIds |-> Concat(bodies[j], str)]

\* body += chunk.toString(), on the `body` of the call of handleRequest that
\* set this listener.
AppendChunk(bodies, i, str) == [bodies EXCEPT ![i] = Concat(@, str)]

\* A 'data' event.
OnData(i) ==
    /\ hpc[i] = "reading"
    /\ chunks[i] # <<>>
    /\ body' = AppendChunk(body, i, ChunkToString(Head(chunks[i])))
    /\ chunks' = [chunks EXCEPT ![i] = Tail(@)]
    /\ UNCHANGED <<req, hpc, writeHeads, fired, uncaught>>
    /\ UNCHANGED <<secret, lifecycleVars>>
    /\ UNCHANGED <<reviewVars, extensionVars>>

\* The 'end' event.
End(i) ==
    /\ hpc[i] = "reading"
    /\ chunks[i] = <<>>
    /\ LET h == OnEnd(secret, req[i], body[i])
       IN  /\ writeHeads' = [writeHeads EXCEPT ![i] = h.writeHeads]
           /\ fired' = [fired EXCEPT ![i] = h.fired]
           /\ uncaught' = [uncaught EXCEPT ![i] = h.uncaught]
    /\ hpc' = [hpc EXCEPT ![i] = "ended"]
    /\ UNCHANGED <<req, chunks, body>>
    /\ UNCHANGED <<secret, lifecycleVars>>
    /\ UNCHANGED <<reviewVars, extensionVars>>

HandleRequest(i) ==
    \/ RejectMethod(i)
    \/ AnswerHealth(i)
    \/ RejectPath(i)
    \/ ReadBody(i)
    \/ OnData(i)
    \/ End(i)

\* A WebhookServer whose start() has resolved.
Started ==
    /\ server = "Server"
    /\ listener = "listening"
    /\ startPromise = "resolved"
    /\ startError = NoVal
    /\ closing = 0
    /\ statusChanges = <<TRUE>>
    /\ refusedStarts = 0
    /\ disposed = FALSE
    /\ lifecycleCalls = 1

\* Only request 1 has arrived.
OnlyFirst(r) == [i \in RequestIds |-> IF i = 1 THEN r ELSE NoRequest]

\* One request of any method, path and headers with a body of any JSON text,
\* delivered in one chunk, to a started gateway with or without a secret.
InitWebhook ==
    /\ NoReview
    /\ Started
    /\ secret \in Secrets
    /\ \E m \in Methods, u \in Urls, e \in EventTypes, d \in Documents :
         \E sig \in SignatureHeaders(secret, RawBody(d, <<>>)) :
            Received(OnlyFirst(Request(m, u, sig, e, RawBody(d, <<>>), 0)))

NextWebhook == HandleRequest(1)

SpecWebhook == InitWebhook /\ [][NextWebhook]_vars

\* The same text with one byte replaced by another.
OneByteChanged(bytes) ==
    {[bytes EXCEPT ![k] = b] :
        k \in 1..Len(bytes), b \in Bytes} \ {bytes}

\* A POST of a pull-request event to /webhook of a gateway with a secret:
\* the sender signed the bytes `signed` with the secret, and the body that
\* arrives is those bytes, or those bytes with one byte changed, in one chunk
\* or two.
InitSignature ==
    /\ NoReview
    /\ Started
    /\ secret = "k1"
    /\ \E signed \in SeqsUpTo(Bytes, MaxBodyBytes) :
         \E sent \in {signed} \cup OneByteChanged(signed) :
            \E split \in 0..Len(sent) :
               \E d \in {dd \in ObjectDocuments :
                            /\ dd.action \in {"opened", "closed"}
                            /\ dd.number = "7"
                            /\ dd.hasPullRequest} :
                  Received(OnlyFirst(
                      Request("POST", "/webhook",
                              Digest(secret, RawBody(d, signed)),
                              "pull_request", RawBody(d, sent), split)))

NextSignature ==
    \/ ReadBody(1)
    \/ OnData(1)
    \/ End(1)

SpecSignature == InitSignature /\ [][NextSignature]_vars

\* The texts of the bodies of two simultaneous requests: none, one ASCII
\* byte, and one two-byte sequence (which a chunk boundary can cut).
ConcurrentTexts == {<<>>, <<"a">>, <<"L", "C">>}

\* The requests of the runs with two requests in flight: one for each answer
\* handleRequest gives by itself, and pull-request events to /webhook with a
\* body of any of three JSON texts, signed with the secret "k1" or unsigned,
\* in one chunk or two.
ConcurrentRequests ==
    {Request("GET", "/webhook", NoHeader, "pull_request",
             RawBody(d, <<>>), 0) : d \in {dd \in OtherDocuments : dd.json = "invalid"}}
    \cup {Request("POST", u, NoHeader, "pull_request", RawBody(d, <<>>), 0) :
            u \in {"/health", "/other"},
            d \in {dd \in OtherDocuments : dd.json = "invalid"}}
    \cup UNION {
            {Request("POST", "/webhook", sig, "pull_request",
                     RawBody(d, t), split) :
                sig \in {NoHeader, Digest("k1", RawBody(d, t))},
                split \in 0..Len(t)} :
            d \in {dd \in Documents :
                      \/ dd.json = "invalid"
                      \/ /\ dd.json = "object"
                         /\ dd.action \in {"opened", "closed"}
                         /\ dd.number = "7"
                         /\ dd.hasPullRequest},
            t \in ConcurrentTexts}

\* Two requests have arrived at a started gateway, with or without a secret.
InitConcurrent ==
    /\ NoReview
    /\ Started
    /\ secret \in Secrets
    /\ \E r1, r2 \in ConcurrentRequests :
         Received([i \in RequestIds |-> IF i = 1 THEN r1 ELSE r2])

\* The events of the two requests, in any order.
NextConcurrent == \E i \in RequestIds : HandleRequest(i)

SpecConcurrent == InitConcurrent /\ [][NextConcurrent]_vars

\* ------------------------------------------------------------------------
\* The webhook gateway: start and stop (src/src/webhookServer.ts)
\* ------------------------------------------------------------------------

\* Calls of start() and stop() in one run.
MaxLifecycleCalls == 4

\* err.code of the 'error' event of a listen that failed.
BindErrors == {"EADDRINUSE", "EACCES"}

\* get isRunning()
IsRunning == server # "null"

\* _onStatusChange.fire(value): a disposed emitter has no listener left.
Fire(changes, value, isDisposed) ==
    IF isDisposed THEN changes ELSE Append(changes, value)

\* start() with this.server set: throws 'Webhook server is already running.'
StartRefused ==
    /\ lifecycleCalls < MaxLifecycleCalls
    /\ ~disposed
    /\ IsRunning
    /\ refusedStarts' = refusedStarts + 1
    /\ lifecycleCalls' = lifecycleCalls + 1
    /\ UNCHANGED disposed
    /\ UNCHANGED <<server, listener, startPromise, startError, closing,
                   statusChanges>>
    /\ UNCHANGED <<secret, requestVars>>
    /\ UNCHANGED <<reviewVars, extensionVars>>

\* start(): http.createServer, the 'error' listener, listen.
Start ==
    /\ lifecycleCalls < MaxLifecycleCalls
    /\ ~disposed
    /\ ~IsRunning
    /\ server' = "Server"
    /\ listener' = "binding"
    /\ startPromise' = "pending"
    /\ startError' = NoVal
    /\ lifecycleCalls' = lifecycleCalls + 1
    /\ UNCHANGED disposed
    /\ UNCHANGED <<closing, statusChanges, refusedStarts>>
    /\ UNCHANGED <<secret, requestVars>>
    /\ UNCHANGED <<reviewVars, extensionVars>>

\* The callback of listen: the port is bound.
ListenSucceeds ==
    /\ listener = "binding"
    /\ listener' = "listening"
    /\ statusChanges' = Fire(statusChanges, TRUE, disposed)
    /\ startPromise' = "resolved"
    /\ UNCHANGED disposed
    /\ UNCHANGED <<server, startError, closing, lifecycleCalls,
                   refusedStarts>>
    /\ UNCHANGED <<secret, requestVars>>
    /\ UNCHANGED <<reviewVars, extensionVars>>

\* The 'error' listener: the port could not be bound.
ListenFails(code) ==
    /\ listener = "binding"
    /\ listener' = "unbound"
    /\ startError' = code
    /\ startPromise' = "rejected"
    /\ UNCHANGED disposed
    /\ UNCHANGED <<server, closing, statusChanges, lifecycleCalls,
                   refusedStarts>>
    /\ UNCHANGED <<secret, requestVars>>
    /\ UNCHANGED <<reviewVars, extensionVars>>

\* stop() with this.server set, once start() has settled: server.close with
\* the callback.
Stop ==
    /\ lifecycleCalls < MaxLifecycleCalls
    /\ ~disposed
    /\ IsRunning
    /\ listener # "binding"
    /\ listener' = "unbound"
    /\ closing' = closing + 1
    /\ lifecycleCalls' = lifecycleCalls + 1
    /\ UNCHANGED disposed
    /\ UNCHANGED <<server, startPromise, startError, statusChanges,
                   refusedStarts>>
    /\ UNCHANGED <<secret, requestVars>>
    /\ UNCHANGED <<reviewVars, extensionVars>>

\* stop() without a server: resolves at once.
StopStopped ==
    /\ lifecycleCalls < MaxLifecycleCalls
    /\ ~disposed
    /\ ~IsRunning
    /\ lifecycleCalls' = lifecycleCalls + 1
    /\ UNCHANGED disposed
    /\ UNCHANGED <<server, listener, startPromise, startError, closing,
                   statusChanges, refusedStarts>>
    /\ UNCHANGED <<secret, requestVars>>
    /\ UNCHANGED <<reviewVars, extensionVars>>

\* A callback given to server.close runs.
CloseCallback ==
    /\ closing > 0
    /\ server' = "null"
    /\ statusChanges' = Fire(statusChanges, FALSE, disposed)
    /\ closing' = closing - 1
    /\ UNCHANGED disposed
    /\ UNCHANGED <<listener, startPromise, startError, lifecycleCalls,
                   refusedStarts>>
    /\ UNCHANGED <<secret, requestVars>>
    /\ UNCHANGED <<reviewVars, extensionVars>>

\* dispose(): the emitters are disposed, the server is closed without a
\* callback and forgotten.
Dispose ==
    /\ ~disposed
    /\ disposed' = TRUE
    /\ server' = "null"
    /\ listener' = IF IsRunning THEN "unbound" ELSE listener
    /\ UNCHANGED <<startPromise, startError, closing, statusChanges,
                   refusedStarts, lifecycleCalls>>
    /\ UNCHANGED <<secret, requestVars>>
    /\ UNCHANGED <<reviewVars, extensionVars>>

\* A new WebhookServer, with or without a secret; no request.
InitGateway ==
    /\ NoReview
    /\ NoServer
    /\ secret \in Secrets
    /\ Received([i \in RequestIds |-> NoRequest])

NextGateway ==
    \/ StartRefused
    \/ Start
    \/ ListenSucceeds
    \/ \E code \in BindErrors : ListenFails(code)
    \/ Stop
    \/ StopStopped
    \/ CloseCallback
    \/ Dispose

SpecGateway == InitGateway /\ [][NextGateway]_vars

\* ------------------------------------------------------------------------
\* The extension: runs of a review (src/src/extension.ts, runReview)
\* ------------------------------------------------------------------------

\* A step of call i of runReview leaves the other calls where they are.
RunStep(i, to) ==
    /\ rpc' = [rpc EXCEPT ![i] = to]
    /\ UNCHANGED runRepo
    /\ UNCHANGED <<reviewVars, gatewayVars>>

\* A call made on the const github of call i.
Use(i, op) ==
    used' = [used EXCEPT ![i] = Append(@, [op |-> op, repo |-> github[i]])]

\* runReview(prNumber, owner, repo) with owner and repo given: it calls
\* ensureGitHubService(owner, repo), which awaits getGitHubToken().
RunReview(i) ==
    /\ rpc[i] = "called"
    /\ RunStep(i, "awaitToken")
    /\ UNCHANGED <<githubService, currentRepo, github, used>>

\* ensureGitHubService resumes without a token: it returns null and
\* runReview returns.
TokenMissing(i) ==
    /\ rpc[i] = "awaitToken"
    /\ github' = [github EXCEPT ![i] = "null"]
    /\ RunStep(i, "ended")
    /\ UNCHANGED <<githubService, currentRepo, used>>

\* ensureGitHubService resumes with the token: the client of the module is
\* returned when it is set and the current repository is the one asked
\* for; otherwise a client is created, stored in the module, and its
\* verifyConnection() is awaited.
TokenResolves(i) ==
    /\ rpc[i] = "awaitToken"
    /\ IF githubService # "null" /\ currentRepo = runRepo[i]
       THEN /\ github' = [github EXCEPT ![i] = githubService]
            /\ RunStep(i, "ensured")
            /\ UNCHANGED <<githubService, currentRepo, used>>
       ELSE /\ githubService' = runRepo[i]
            /\ currentRepo' = runRepo[i]
            /\ RunStep(i, "awaitVerify")
            /\ UNCHANGED <<github, used>>

\* verifyConnection() resolves with false: the client of the module is set
\* to null and null is returned.
VerifyFails(i) ==
    /\ rpc[i] = "awaitVerify"
    /\ githubService' = "null"
    /\ github' = [github EXCEPT ![i] = "null"]
    /\ RunStep(i, "ended")
    /\ UNCHANGED <<currentRepo, used>>

\* verifyConnection() resolves with true: the update of the setting 'owner'
\* is awaited.
VerifyResolves(i) ==
    /\ rpc[i] = "awaitVerify"
    /\ RunStep(i, "awaitUpdateOwner")
    /\ UNCHANGED <<githubService, currentRepo, github, used>>

\* The update of 'owner' resolves: the update of 'repo' is awaited.
UpdateOwnerResolves(i) ==
    /\ rpc[i] = "awaitUpdateOwner"
    /\ RunStep(i, "awaitUpdateRepo")
    /\ UNCHANGED <<githubService, currentRepo, github, used>>

\* The update of 'repo' resolves: ensureGitHubService returns the client of
\* the module, as it is now; runReview returns when it is null.
UpdateRepoResolves(i) ==
    /\ rpc[i] = "awaitUpdateRepo"
    /\ github' = [github EXCEPT ![i] = githubService]
    /\ RunStep(i, IF githubService = "null" THEN "ended" ELSE "ensured")
    /\ UNCHANGED <<githubService, currentRepo, used>>

\* await github.getPullRequest(prNumber)
GetPullRequest(i) ==
    /\ rpc[i] = "ensured"
    /\ Use(i, "getPullRequest")
    /\ RunStep(i, "awaitPullRequest")
    /\ UNCHANGED <<githubService, currentRepo, github>>

\* await github.getPullRequestFiles(prNumber)
GetPullRequestFiles(i) ==
    /\ rpc[i] = "awaitPullRequest"
    /\ Use(i, "getPullRequestFiles")
    /\ RunStep(i, "awaitFiles")
    /\ UNCHANGED <<githubService, currentRepo, github>>

\* await github.createCommitStatus(pr.head.sha, 'pending', ...)
CreatePendingStatus(i) ==
    /\ rpc[i] = "awaitFiles"
    /\ Use(i, "createCommitStatus")
    /\ RunStep(i, "awaitPending")
    /\ UNCHANGED <<githubService, currentRepo, github>>

\* await aiService.reviewPullRequest(...): the review, of a service of this
\* call, which does not use the client.
AwaitReview(i) ==
    /\ rpc[i] = "awaitPending"
    /\ RunStep(i, "awaitReview")
    /\ UNCHANGED <<githubService, currentRepo, github, used>>

\* await github.createCommitStatus(pr.head.sha, statusState, ...)
CreateCommitStatus(i) ==
    /\ rpc[i] = "awaitReview"
    /\ Use(i, "createCommitStatus")
    /\ RunStep(i, "awaitStatus")
    /\ UNCHANGED <<githubService, currentRepo, github>>

\* await github.submitReview(prNumber, ...), after which runReview ends.
SubmitReview(i) ==
    /\ rpc[i] = "awaitStatus"
    /\ Use(i, "submitReview")
    /\ RunStep(i, "ended")
    /\ UNCHANGED <<githubService, currentRepo, github>>

\* Two pull-request events have been emitted and the handler of the
\* extension has called runReview for each, with the repository of the event;
\* the module has no client yet, or the client of an earlier run.
InitRuns ==
    /\ ReviewIdle
    /\ secret = ""
    /\ Started
    /\ Received([i \in RequestIds |-> NoRequest])
    /\ githubService \in {"null"} \cup Repositories
    /\ currentRepo = IF githubService = "null" THEN "" ELSE githubService
    /\ rpc = [i \in RunIds |-> "called"]
    /\ runRepo \in [RunIds -> Repositories]
    /\ github = [i \in RunIds |-> NoVal]
    /\ used = [i \in RunIds |-> <<>>]

\* The continuations of the two calls, in any order.
NextRuns ==
    \E i \in RunIds :
        \/ RunReview(i)
        \/ TokenMissing(i)
        \/ TokenResolves(i)
        \/ VerifyFails(i)
        \/ VerifyResolves(i)
        \/ UpdateOwnerResolves(i)
        \/ UpdateRepoResolves(i)
        \/ GetPullRequest(i)
        \/ GetPullRequestFiles(i)
        \/ CreatePendingStatus(i)
        \/ AwaitReview(i)
        \/ CreateCommitStatus(i)
        \/ SubmitReview(i)

SpecRuns == InitRuns /\ [][NextRuns]_vars

\* ------------------------------------------------------------------------
\* Properties
\* ------------------------------------------------------------------------

\* A reviewable file as the specification words it: status not removed and
\* a diff text that is present and not empty.
HasDiff(f) == f.hasPatch /\ f.patchLength # 0

Reviewable(f) == f.status # "removed" /\ HasDiff(f)

AnyReviewable == \E k \in 1..Len(files) : Reviewable(files[k])

\* The position in `files` of the first reviewable file.
FirstReviewable ==
    CHOOSE k \in 1..Len(files) :
        Reviewable(files[k]) /\ \A j \in 1..(k - 1) : ~Reviewable(files[j])

Returned == pc = "done"

\* C1: for every ReviewResult returned, status is fail iff summary.errors > 0,
\* warn iff summary.errors = 0 and summary.warnings > 0, and pass otherwise.
C1_StatusFollowsSummary ==
    Returned =>
        /\ (result.status = "fail") <=> (result.summary.errors > 0)
        /\ (result.status = "warn") <=>
              (result.summary.errors = 0 /\ result.summary.warnings > 0)
        /\ (result.status = "pass") <=>
              (result.summary.errors = 0 /\ result.summary.warnings = 0)

\* A result with an error and a warning, whose status is fail.
C1_Witness ==
    /\ Returned
    /\ result.summary.errors > 0
    /\ result.summary.warnings > 0
    /\ result.status = "fail"

\* C2: for every ReviewResult returned, summary.totalIssues is issues.length
\* and errors + warnings + info + suggestions = totalIssues, whatever
\* severity values the remote response holds.
C2_SeverityCountsPartition ==
    Returned =>
        /\ result.summary.totalIssues = Len(result.issues)
        /\ result.summary.errors + result.summary.warnings + result.summary.info
             + result.summary.suggestions = result.summary.totalIssues

\* The issues of all the per-file lists of the result, in order.
PerFileIssues == Flatten([k \in 1..Len(result.files) |-> result.files[k].issues])

\* C3: the per-file issue lists partition result.issues by file: every list
\* holds only issues of its file, and every issue is in the per-file lists as
\* many times as it is in result.issues (none lost, none twice).
C3_PerFilePartition ==
    Returned =>
        /\ \A k \in 1..Len(result.files) :
              \A j \in 1..Len(result.files[k].issues) :
                  result.files[k].issues[j].file = result.files[k].filename
        /\ \A k \in 1..Len(result.issues) :
              Count(result.issues[k], PerFileIssues)
                  = Count(result.issues[k], result.issues)
        /\ Len(PerFileIssues) = Len(result.issues)

Batched == pc = "loop" /\ bIdx = 0

\* C4: the batches, concatenated in order, are the reviewable files in input
\* order (so each is in exactly one batch), and no batch holds a removed file
\* or a file without diff text.
C4_BatchesPartitionReviewable ==
    Batched =>
        /\ Flatten(batches) = SelectSeq(files, Reviewable)
        /\ \A b \in 1..Len(batches) :
              \A j \in 1..Len(batches[b]) : Reviewable(batches[b][j])

\* Three files, the first not reviewable, the others in two batches.
C4_Witness ==
    /\ Batched
    /\ Len(files) = 3
    /\ ~Reviewable(files[1])
    /\ batches = << <<files[2]>>, <<files[3]>> >>

\* C5: with a reviewable file, every batch is non-empty, a batch is longer
\* than the ceiling only if it holds one file, and a batch is closed only
\* when the next file would go over the ceiling.
C5_GreedyBatches ==
    (Batched /\ AnyReviewable) =>
        /\ \A b \in 1..Len(batches) :
              /\ Len(batches[b]) > 0
              /\ BatchSize(batches[b]) > 25000 => Len(batches[b]) = 1
        /\ \A b \in 1..(Len(batches) - 1) :
              BatchSize(batches[b]) + PatchSize(batches[b + 1][1]) > 25000

\* Three reviewable files of 10,000 characters: [f1, f2], [f3].
C5_Witness ==
    /\ Batched
    /\ Len(files) = 3
    /\ \A k \in 1..3 : Reviewable(files[k]) /\ files[k].patchLength = 10000
    /\ batches = << <<files[1], files[2]>>, <<files[3]>> >>

\* C6: without a reviewable file, reviewPullRequest has exactly one batch,
\* which is empty, and makes no remote call for it.
C6_NoCallWithoutReviewableFile ==
    (pc # "start" /\ ~filesNull /\ ~AnyReviewable) =>
        /\ batches = << <<>> >>
        /\ calls = 0

C8_OnlyRateLimitIsRetried ==
    pc = "sleep" => lastStatus = 429

\* C9: when every batch failed and a reviewable file exists, the result holds
\* exactly one issue, the 'ai-api-error' issue of severity error on the first
\* reviewable file, and the status is fail.
C9_TotalFailureIssue ==
    (Returned /\ succeededBatches = 0 /\ AnyReviewable) =>
        /\ Len(result.issues) = 1
        /\ result.issues[1].id = ApiErrorId
        /\ result.issues[1].severity = "error"
        /\ result.issues[1].file = files[FirstReviewable].filename
        /\ result.status = "fail"

\* Both batches failed; the first reviewable file is not the last one.
C9_Witness ==
    /\ Returned
    /\ succeededBatches = 0
    /\ Len(batches) = 2
    /\ Len(files) = 2
    /\ files[1].filename # files[2].filename
    /\ result.issues[1].file = files[1].filename

\* C10: when the remote call of at least one batch succeeded, the result
\* holds no 'ai-api-error' issue.
C10_NoApiErrorIssueAfterSuccess ==
    (Returned /\ succeededBatches > 0) =>
        \A k \in 1..Len(result.issues) : result.issues[k].id # ApiErrorId

IsPrefix(s, t) == Len(s) <= Len(t) /\ SubSeq(t, 1, Len(s)) = s

CompleteResult ==
    /\ Returned
    /\ result # NoResult
    /\ result.status \in {"pass", "warn", "fail"}
    /\ Len(result.files) = Len(files)
    /\ result.issues = allIssues

\* C11: for a change-set that is not null, reviewPullRequest never throws and
\* in the end returns a complete ReviewResult, whatever the remote calls do.
C11_AlwaysReturns ==
    ~filesNull => ([](pc # "thrown") /\ <>CompleteResult)

\* A review returned after a batch that took three 429 answers and a batch
\* that failed without any HTTP response.
C11_Witness ==
    /\ CompleteResult
    /\ Len(batches) = 2
    /\ succeededBatches = 0
    /\ calls = 1
    /\ lastStatus = 0
    /\ Is429(lastApiError) = FALSE
    /\ result.status = "fail"

\* C12: a step never drops an issue already collected; a batch that ends, by
\* success or by failure, moves the loop to the next batch and not past it;
\* the loop at a batch makes that batch's first remote call; the result is
\* built after the last batch and holds every issue collected.
C12_BatchIsolation ==
    [][ /\ IsPrefix(allIssues, allIssues')
        /\ (pc = "awaitGroq" /\ pc' = "loop") => bIdx' = bIdx + 1
        /\ (pc = "loop" /\ bIdx < Len(batches)) =>
               (pc' = "awaitGroq" /\ calls' = 1)
        /\ pc' = "done" =>
               (bIdx' = Len(batches') /\ result'.issues = allIssues')
      ]_vars

\* The first of two batches failed, the second succeeded and its issues are
\* in the result.
C12_Witness ==
    /\ Returned
    /\ Len(batches) = 2
    /\ apiErrorOccurred
    /\ succeededBatches = 1
    /\ ~batchFailed
    /\ Len(result.issues) > 0

\* C13: with null for the change-set, reviewPullRequest throws before it has
\* batched anything or made a remote call, and returns no ReviewResult.
C13_NullChangeSetThrows ==
    filesNull =>
        /\ pc \in {"start", "thrown"}
        /\ batches = <<>>
        /\ calls = 0
        /\ result = NoResult

C13_Witness == filesNull /\ pc = "thrown"

\* The request of the runs with one request, and what was sent with it.
Ended == hpc[1] = "ended"

WebhookPost == req[1].method = "POST" /\ req[1].url \in {"/webhook", "/"}

Payload == req[1].raw.docs[1]

PullRequestEvent == req[1].event = "pull_request"

\* "sha256=" + hex(HMAC-SHA256(secret, raw body))
ExpectedSignature == Digest(secret, req[1].raw)

SignatureRejects ==
    /\ secret # ""
    /\ ~req[1].signature.present \/ req[1].signature # ExpectedSignature

Answered(response) == writeHeads[1] = <<response>> /\ uncaught[1] = "none"

\* C14: a POST to the webhook path is answered 401 without an event exactly
\* when a secret is configured and the signature header is missing or is not
\* the expected digest string, whatever the length of the header.
C14_UnauthorizedIffBadSignature ==
    (Ended /\ WebhookPost) =>
        ((Answered(InvalidSignature) /\ fired[1] = <<>>) <=> SignatureRejects)

\* C15: the first check that decides, in the order method, health path,
\* webhook path, signature, event type, JSON parse, action, gives the
\* response.
C15_OrderOfChecks ==
    Ended =>
        /\ req[1].method # "POST" => Answered(MethodNotAllowed)
        /\ (req[1].method = "POST" /\ req[1].url = "/health") =>
              Answered(Health)
        /\ (req[1].method = "POST"
                /\ req[1].url \notin {"/health", "/webhook", "/"}) =>
              Answered(NotFound)
        /\ (WebhookPost /\ SignatureRejects) => Answered(InvalidSignature)
        /\ (WebhookPost /\ ~SignatureRejects /\ ~PullRequestEvent) =>
              Answered(EventIgnored(req[1].event))
        /\ (WebhookPost /\ ~SignatureRejects /\ PullRequestEvent
                /\ Payload.json = "invalid") =>
              Answered(InvalidJson)
        /\ (WebhookPost /\ ~SignatureRejects /\ PullRequestEvent
                /\ Payload.json = "object"
                /\ Payload.action \notin RelevantActions) =>
              Answered(ActionIgnored(Payload.action))

\* A pull-request event that passed the signature check, with a body that is
\* a JSON object.
VerifiedPullRequest ==
    /\ Ended
    /\ WebhookPost
    /\ ~SignatureRejects
    /\ PullRequestEvent

PassesEveryCheck ==
    /\ VerifiedPullRequest
    /\ Payload.json \in {"object", "primitive"}
    /\ Payload.action \in RelevantActions

\* C17: a request that passes every check emits its payload once, is
\* answered once, with the 200 acknowledgment of its number and action, and
\* its handler ends without error; no other request emits anything.
C17_EmittedOnceAnsweredOnce ==
    Ended =>
        IF PassesEveryCheck
        THEN fired[1] = <<Payload>> /\ Answered(ReviewTriggered(Payload))
        ELSE fired[1] = <<>>

\* C18: a verified pull-request event with a body that is not JSON is
\* answered 400 without an event; res.writeHead(400) is called only for such
\* a body, and never after an event or another response.
C18_BadRequestOnlyForMalformedBody ==
    Ended =>
        /\ (VerifiedPullRequest /\ Payload.json = "invalid") =>
              (Answered(InvalidJson) /\ fired[1] = <<>>)
        /\ \A k \in 1..Len(writeHeads[1]) :
              writeHeads[1][k].status = 400 =>
                  /\ Payload.json = "invalid"
                  /\ fired[1] = <<>>
                  /\ k = 1

\* The body was taken as signed: the handler went past the signature check.
Accepted ==
    /\ uncaught[1] = "none"
    /\ writeHeads[1] # <<>>
    /\ writeHeads[1][1] # InvalidSignature

\* C19: a body is accepted exactly when its bytes are the bytes that were
\* signed with the secret, whatever the bytes and the chunks.
C19_SignatureOverRawBytes ==
    (Ended /\ secret # "" /\ WebhookPost /\ req[1].signature.present) =>
        (Accepted <=> req[1].signature = ExpectedSignature)

\* C20: the gateway says it is running only with the port bound, being bound
\* or being closed; after a start() that failed it is not running, and a
\* start() is refused only in those states.
C20_StoppedOrRunning ==
    /\ IsRunning => (listener \in {"binding", "listening"} \/ closing > 0)
    /\ startPromise = "rejected" => ~IsRunning

\* C21: a stopped notification is never followed by another one without a
\* started notification in between, however many times stop() is called and
\* whether or not the earlier stop() has completed.
C21_StopIdempotent ==
    \A k \in 2..Len(statusChanges) :
        ~(statusChanges[k - 1] = FALSE /\ statusChanges[k] = FALSE)

\* C22: at most one remote call is in flight; a call is made only when none
\* is in flight, at the head of the loop (the first call of a batch, after
\* the batch before has ended) or at the end of a backoff wait; no call is in
\* flight during a wait or between two batches.
C22_SequentialBatches ==
    [][ /\ inFlight' <= 1
        /\ pc' \in {"loop", "sleep", "done"} => inFlight' = 0
        /\ inFlight' > inFlight =>
              /\ inFlight = 0
              /\ pc \in {"loop", "sleep"}
              /\ pc = "loop" => calls' = 1
              /\ pc = "sleep" => (calls' = calls + 1 /\ bIdx' = bIdx)
      ]_vars

\* The first call of the second batch is in flight, after the first batch
\* took three calls and two waits and failed on the rate limit.
C22_Witness ==
    /\ pc = "awaitGroq"
    /\ bIdx = 1
    /\ calls = 1
    /\ inFlight = 1
    /\ succeededBatches = 0
    /\ Is429(lastApiError)

\* The call of the batch that just ended resolved with a JSON array.
ParsedArray ==
    /\ pc \in {"loop", "done"}
    /\ succeededBatches > 0
    /\ lastResponse.kind = "array"

\* An element whose message is not empty and whose severity and category are
\* strings or missing.
WellFormed(item) ==
    /\ HasMessage(item)
    /\ item.severity # NonString
    /\ item.category # NonString

\* C23: when the response text holds a JSON array, every well-formed element
\* with a non-empty message yields one issue, in order, whatever the other
\* elements are: an element with a malformed field is dropped alone, so the
\* batch adds at least as many issues as the array has well-formed elements
\* and at most as many as it has elements with a message.
C23_ElementsParsedAlone ==
    ParsedArray =>
        LET added == Len(allIssues) - issuesBefore
            wellFormed == SelectSeq(lastResponse.items, WellFormed)
            withMessage == SelectSeq(lastResponse.items, HasMessage)
        IN /\ Len(wellFormed) <= added
           /\ added <= Len(withMessage)
           /\ Len(wellFormed) = Len(withMessage) =>
                 \A k \in 1..added :
                     allIssues[issuesBefore + k].message
                         = <<withMessage[k].message>>

Severities == {"error", "warning", "info", "suggestion"}

Categories ==
    {"security", "performance", "error-handling", "best-practice",
     "complexity", "naming", "debug-statement", "todo-comment", "large-file",
     "merge-conflict", "duplicate-code"}

\* C24: every issue of allIssues has a severity of the four severities and a
\* category of the category set, whatever severity and category strings the
\* response holds.
C24_NormalizedIssues ==
    \A k \in 1..Len(allIssues) :
        /\ allIssues[k].severity \in Severities
        /\ allIssues[k].category \in Categories

\* C25: any two issues of result.issues at different positions, of the same
\* batch or of different batches, have different ids.
C25_DistinctIds ==
    Returned =>
        \A j, k \in 1..Len(result.issues) :
            j # k => result.issues[j].id # result.issues[k].id

NotRemoved(f) == f.status # "removed"

\* C26 as stated: result.files holds one entry for every input file whose
\* status is not 'removed' and no entry for a file whose status is 'removed'.
C26_PerFileOmitsRemoved ==
    Returned =>
        /\ Len(result.files) = Len(SelectSeq(files, NotRemoved))
        /\ \A k \in 1..Len(result.files) : NotRemoved(result.files[k])

\* C26: result.files holds one entry for every input file, in the order of
\* the input, whatever the status of the file ('removed' included); the entry
\* of a file without issues has an empty issue list.
C26_PerFileEveryFile ==
    Returned =>
        /\ Len(result.files) = Len(files)
        /\ \A k \in 1..Len(files) :
              /\ result.files[k].filename = files[k].filename
              /\ result.files[k].status = files[k].status
              /\ result.files[k].issues = FileIssues(result.issues, files[k])

\* A result with the entry of a removed file and the entry, without issues,
\* of a file that was reviewed.
C26_Witness ==
    /\ Returned
    /\ \E j, k \in 1..Len(result.files) :
          /\ files[j].status = "removed"
          /\ result.files[j].status = "removed"
          /\ Reviewable(files[k])
          /\ result.files[k].issues = <<>>

\* The text the call resolved with holds no issue: no JSON array, an
\* array-looking part that JSON.parse rejects, or an empty array.
FindsNothing(response) ==
    \/ response.kind \in {"prose", "broken"}
    \/ response.kind = "array" /\ response.items = <<>>

FailedByTimeout ==
    /\ pc = "loop"
    /\ batchFailed
    /\ lastApiError = TimeoutMessage

\* C29 as stated: a timeout is retried like a rate-limit response, so a batch
\* is declared failed by a timeout only when the calls of callGroqWithRetry
\* are used up.
C29_TimeoutIsRetried == FailedByTimeout => calls = maxRetries

\* C29: a timeout of a remote call is not retried: no wait is started after
\* it and the batch is declared failed at once, by the call that timed out
\* (the first one, or one made after the wait for a rate-limit response).
C29_TimeoutFailsAtOnce ==
    /\ pc = "sleep" => lastStatus # 0
    /\ FailedByTimeout => (lastStatus = 0 /\ Len(waits) = calls - 1)

\* The first call of a batch timed out: the batch failed without a wait.
C29_Witness ==
    /\ FailedByTimeout
    /\ calls = 1
    /\ waits = <<>>

\* The string that the chunks cs of one request give.
RECURSIVE BodyOf(_)
BodyOf(cs) ==
    IF cs = <<>> THEN EmptyString
    ELSE Concat(ChunkToString(Head(cs)), BodyOf(Tail(cs)))

\* The chunks of request r that have been delivered when `left` are not yet.
Delivered(r, left) ==
    LET all == ChunksOf(r.raw, r.split)
    IN SubSeq(all, 1, Len(all) - Len(left))

\* What handleRequest does for request r to a gateway of secret key when r is
\* the only request there is.
AloneOutcome(key, r) ==
    IF r.method # "POST" THEN Handled(<<MethodNotAllowed>>, <<>>, "none")
    ELSE IF r.url = "/health" THEN Handled(<<Health>>, <<>>, "none")
    ELSE IF r.url \notin {"/webhook", "/"}
         THEN Handled(<<NotFound>>, <<>>, "none")
    ELSE OnEnd(key, r, BodyOf(ChunksOf(r.raw, r.split)))

\* C28: with two requests in flight and their 'data' and 'end' events in any
\* order, the body of each request is the concatenation of the chunks of
\* that request delivered so far, and the response, the event emitted and
\* the exception of each request that has ended are those the same request
\* gets from a gateway of the same secret when it is alone.
C28_IndependentRequests ==
    \A i \in RequestIds :
        /\ hpc[i] \in {"reading", "ended"} /\ req[i].method = "POST"
              /\ req[i].url \in {"/webhook", "/"} =>
              body[i] = BodyOf(Delivered(req[i], chunks[i]))
        /\ hpc[i] = "ended" =>
              Handled(writeHeads[i], fired[i], uncaught[i])
                  = AloneOutcome(secret, req[i])

\* Both requests are being read, each has got its first chunk and waits for
\* its second one, and the two bodies differ.
C28_Witness ==
    /\ hpc[1] = "reading" /\ hpc[2] = "reading"
    /\ Len(chunks[1]) = 1 /\ Len(chunks[2]) = 1
    /\ body[1].text # <<>> /\ body[2].text # <<>>
    /\ body[1] # body[2]

\* C30: with two calls of runReview in progress, the client that
\* ensureGitHubService returned to a call is the one created for the owner
\* and repo of that call, and every call made on it (fetching the pull
\* request and its files, posting the status and the review) goes to that
\* repository.
C30_ClientOfOwnRepository ==
    \A i \in RunIds :
        /\ github[i] \notin {NoVal, "null"} => github[i] = runRepo[i]
        /\ \A k \in 1..Len(used[i]) : used[i][k].repo = runRepo[i]

====
